---- MODULE Spec2Model ----
(***************************************************************************)
(* Model of src/generator.py: a four-line rhymed poem is built by          *)
(* rejection sampling over an external text generator.                     *)
(*                                                                         *)
(* A text is a sequence of Unicode code points (Python str).  The letters  *)
(* used below: а-я = 1072..1103, ё = 1105, А-Я = 1040..1071, Ё = 1025,      *)
(* space = 32, hyphen = 45, digits = 48..57.  Python indices are 0-based;  *)
(* every position kept in the state is the Python (0-based) position.      *)
(***************************************************************************)
EXTENDS Integers, Sequences, FiniteSets, TLC

VARIABLES
  stub,                    \* which generator the run was constructed with
  pc,                      \* position of the script
  main_attempt,            \* `attempt` of the main retry loop (1..8)
  final_poem,              \* final_poem of the main script (None or a list)
  poem_lines,              \* poem_lines of the running / returned attempt
  first_line_stress_info,
  first_line_syllables,
  line_num,
  rhyme_vowel,
  target_syllables,
  target_stress_info,
  attempt,                 \* `attempt` of the sampling loop of one line
  best_line,
  best_quality,
  best_issues,
  candidate_lines,         \* write-only list of the code, kept as a set
  new_line,                \* the last cleaned reply of the generator
  line_calls,              \* generator calls made for the current line
  last_store,              \* which append statement filled the last slot
  pure                     \* argument/result of a pure function under test

vars == << stub, pc, main_attempt, final_poem, poem_lines,
           first_line_stress_info, first_line_syllables, line_num,
           rhyme_vowel, target_syllables, target_stress_info, attempt,
           best_line, best_quality, best_issues, candidate_lines,
           new_line, line_calls, last_store, pure >>

----------------------------------------------------------------------------
(* Characters and the str methods the code uses                            *)

\* None where the code holds an optional character (a code point otherwise)
NoChar == 0

\* None / Some for optional lines (final_poem, best_line)
NoneLine == [some |-> FALSE, val |-> <<>>]
SomeLine(v) == [some |-> TRUE, val |-> v]

\* None for an optional (vowel, position, word) tuple
NoStress == [some |-> FALSE, vowel |-> NoChar, position |-> 0, word |-> <<>>]

\* str.isspace(), which is also what \s matches in a str pattern
Whitespace ==
  {9, 10, 11, 12, 13, 28, 29, 30, 31, 32, 133, 160, 5760,
   8232, 8233, 8239, 8287, 12288} \cup (8192..8202)

\* the character class а-яёА-ЯЁ of both regular expressions
IsRussian(c) ==
  \/ (c >= 1072 /\ c <= 1103)
  \/ c = 1105
  \/ (c >= 1040 /\ c <= 1071)
  \/ c = 1025

\* str.isupper() of one character (Cyrillic and Latin capitals)
isupper(c) ==
  \/ (c >= 1040 /\ c <= 1071)
  \/ c = 1025
  \/ (c >= 65 /\ c <= 90)

\* str.lower() of one character
LowerChar(c) ==
  IF (c >= 1040 /\ c <= 1071) \/ (c >= 65 /\ c <= 90) THEN c + 32
  ELSE IF c = 1025 THEN 1105
  ELSE c

\* str.lower()
lower(s) == [i \in 1..Len(s) |-> LowerChar(s[i])]

\* str.strip(chars): drop the leading and the trailing run of `chars`
strip_chars(s, chars) ==
  LET lead  == Cardinality({i \in 1..Len(s) : \A j \in 1..i : s[j] \in chars})
      trail == Cardinality({i \in 1..Len(s) : \A j \in i..Len(s) : s[j] \in chars})
  IN  IF lead = Len(s) THEN <<>> ELSE SubSeq(s, lead + 1, Len(s) - trail)

\* str.strip()
strip(s) == strip_chars(s, Whitespace)

RECURSIVE split_from(_, _, _, _)
split_from(text, i, cur, words) ==
  IF i > Len(text)
  THEN IF cur = <<>> THEN words ELSE Append(words, cur)
  ELSE IF text[i] \in Whitespace
       THEN split_from(text, i + 1, <<>>,
                       IF cur = <<>> THEN words ELSE Append(words, cur))
       ELSE split_from(text, i + 1, Append(cur, text[i]), words)

\* str.split(): the maximal runs of non-whitespace characters
split(text) == split_from(text, 1, <<>>, <<>>)

\* `x in list`
InList(x, list) == \E i \in 1..Len(list) : list[i] = x

----------------------------------------------------------------------------
(* clean_poem_line, nested in generate_spring_poem                         *)

\* re.sub(r'[^а-яёА-ЯЁ\s-]', '', text)
sub_not_russian(text) ==
  SelectSeq(text, LAMBDA c : IsRussian(c) \/ c \in Whitespace \/ c = 45)

RECURSIVE sub_spaces_from(_, _)
sub_spaces_from(s, i) ==
  IF i > Len(s) THEN <<>>
  ELSE IF s[i] \in Whitespace
       THEN IF i > 1 /\ s[i - 1] \in Whitespace
            THEN sub_spaces_from(s, i + 1)
            ELSE <<32>> \o sub_spaces_from(s, i + 1)
       ELSE <<s[i]>> \o sub_spaces_from(s, i + 1)

\* re.sub(r'\s+', ' ', s)
sub_spaces(s) == sub_spaces_from(s, 1)

clean_poem_line(text) ==
  strip_chars(strip(sub_spaces(sub_not_russian(text))), {45})

----------------------------------------------------------------------------
(* The external generator                                                  *)

\* Number of texts of AllTexts the unconstrained generator may return
MaxTexts == 4

\* Continuations the generator is taken to return (full_text with the prompt
\* removed), in this order:
\*   1 ' У реки трава!\n'               2 'вот и наш сад'
\*   3 'а б в'                          4 'он 1 тут 2 у нас'
\*   5 'весна 2024'                     6 'он идёт к'
\*   7 'у РЕКИ трава'                   8 '- он тут у нас'
\*   9 'а там поля'                    10 'hello 123'
\*  11 'Приходит снова тёплая весна'   12 'вот и река'
\*  13 'нет края неба'
AllTexts ==
  << <<32, 1059, 32, 1088, 1077, 1082, 1080, 32, 1090, 1088, 1072, 1074, 1072, 33, 10>>,
     <<1074, 1086, 1090, 32, 1080, 32, 1085, 1072, 1096, 32, 1089, 1072, 1076>>,
     <<1072, 32, 1073, 32, 1074>>,
     <<1086, 1085, 32, 49, 32, 1090, 1091, 1090, 32, 50, 32, 1091, 32, 1085, 1072, 1089>>,
     <<1074, 1077, 1089, 1085, 1072, 32, 50, 48, 50, 52>>,
     <<1086, 1085, 32, 1080, 1076, 1105, 1090, 32, 1082>>,
     <<1091, 32, 1056, 1045, 1050, 1048, 32, 1090, 1088, 1072, 1074, 1072>>,
     <<45, 32, 1086, 1085, 32, 1090, 1091, 1090, 32, 1091, 32, 1085, 1072, 1089>>,
     <<1072, 32, 1090, 1072, 1084, 32, 1087, 1086, 1083, 1103>>,
     <<104, 101, 108, 108, 111, 32, 49, 50, 51>>,
     <<1055, 1088, 1080, 1093, 1086, 1076, 1080, 1090, 32, 1089, 1085, 1086, 1074, 1072, 32, 1090, 1105, 1087, 1083, 1072, 1103, 32, 1074, 1077, 1089, 1085, 1072>>,
     <<1074, 1086, 1090, 32, 1080, 32, 1088, 1077, 1082, 1072>>,
     <<1085, 1077, 1090, 32, 1082, 1088, 1072, 1103, 32, 1085, 1077, 1073, 1072>> >>
Universe == {AllTexts[i] : i \in 1..Len(AllTexts)}

\* new_line = clean_poem_line(full_text.replace(prompt, "").strip())
reply_line(raw) == clean_poem_line(strip(raw))

\* reply_line of every text of the generator, computed once
Cleaned == [t \in Universe |-> reply_line(t)]

\* the lines the sampler can be given
Lines == {Cleaned[t] : t \in Universe}

cleaned_reply(raw) == IF raw \in Universe THEN Cleaned[raw] ELSE reply_line(raw)

----------------------------------------------------------------------------
(* Phonetic analysis                                                       *)

\* vowels = 'аеёиоуыэюя'
vowels == <<1072, 1077, 1105, 1080, 1086, 1091, 1099, 1101, 1102, 1103>>

count_syllables(word) ==
  Cardinality({i \in 1..Len(word) : InList(LowerChar(word[i]), vowels)})

\* words[-1].lower()
last_word_of(words) == lower(words[Len(words)])

count_syllables_in_last_word_of(text) ==
  IF text = <<>> THEN 0
  ELSE IF split(text) = <<>> THEN 0
  ELSE count_syllables(last_word_of(split(text)))

\* count_syllables_in_last_word of every line of Lines, computed once
last_word_syllables == [l \in Lines |-> count_syllables_in_last_word_of(l)]

count_syllables_in_last_word(text) ==
  IF text \in Lines THEN last_word_syllables[text]
  ELSE count_syllables_in_last_word_of(text)


\* for char in reversed(last_word): if char in vowels: return char
last_vowel(last_word) ==
  IF count_syllables(last_word) = 0 THEN NoChar
  ELSE last_word[CHOOSE i \in 1..Len(last_word) :
                   /\ InList(last_word[i], vowels)
                   /\ \A j \in (i + 1)..Len(last_word) : ~InList(last_word[j], vowels)]

get_rhyme_vowel_of(text) ==
  IF text = <<>> THEN NoChar
  ELSE IF split(text) = <<>> THEN NoChar
  ELSE last_vowel(last_word_of(split(text)))

\* get_rhyme_vowel of every line of Lines, computed once
rhyme_vowels == [l \in Lines |-> get_rhyme_vowel_of(l)]

get_rhyme_vowel(text) ==
  IF text \in Lines THEN rhyme_vowels[text]
  ELSE get_rhyme_vowel_of(text)


\* faulty variant: the entry of 'и' maps it to itself alone
get_rhyme_vowel_group_one_way(vowel) ==
  CASE vowel = 1072 -> <<1072, 1103>>
    [] vowel = 1103 -> <<1072, 1103>>
    [] vowel = 1086 -> <<1086, 1105>>
    [] vowel = 1105 -> <<1086, 1105>>
    [] vowel = 1091 -> <<1091, 1102>>
    [] vowel = 1102 -> <<1091, 1102>>
    [] vowel = 1099 -> <<1099, 1080>>
    [] vowel = 1080 -> <<1080>>
    [] vowel = 1101 -> <<1101, 1077>>
    [] vowel = 1077 -> <<1101, 1077>>
    [] OTHER -> <<vowel>>

\* rhyme_groups.get(vowel, [vowel])
get_rhyme_vowel_group(vowel) ==
  CASE vowel = 1072 -> <<1072, 1103>>     \* а: а, я
    [] vowel = 1103 -> <<1072, 1103>>     \* я
    [] vowel = 1086 -> <<1086, 1105>>     \* о: о, ё
    [] vowel = 1105 -> <<1086, 1105>>     \* ё
    [] vowel = 1091 -> <<1091, 1102>>     \* у: у, ю
    [] vowel = 1102 -> <<1091, 1102>>     \* ю
    [] vowel = 1099 -> <<1099, 1080>>     \* ы: ы, и
    [] vowel = 1080 -> <<1099, 1080>>     \* и
    [] vowel = 1101 -> <<1101, 1077>>     \* э: э, е
    [] vowel = 1077 -> <<1101, 1077>>     \* е
    [] OTHER -> <<vowel>>

check_rhyme(target_vowel, current_vowel) ==
  IF target_vowel = NoChar \/ current_vowel = NoChar THEN FALSE
  ELSE InList(current_vowel, get_rhyme_vowel_group(target_vowel))

\* the literal stress dictionary: <<word form, stressed form>> in source order
stress_dict ==
  << <<<<1074, 1077, 1089, 1085, 1072>>, <<1074, 1077, 1089, 1085, 1040>>>>,
     <<<<1074, 1077, 1089, 1085, 1099>>, <<1074, 1077, 1089, 1085, 1067>>>>,
     <<<<1074, 1077, 1089, 1085, 1077>>, <<1074, 1077, 1089, 1085, 1045>>>>,
     <<<<1074, 1077, 1089, 1085, 1091>>, <<1074, 1077, 1089, 1085, 1059>>>>,
     <<<<1074, 1077, 1089, 1085, 1086, 1081>>, <<1074, 1077, 1089, 1085, 1054, 1081>>>>,
     <<<<1090, 1088, 1072, 1074, 1072>>, <<1090, 1088, 1072, 1074, 1040>>>>,
     <<<<1090, 1088, 1072, 1074, 1099>>, <<1090, 1088, 1072, 1074, 1067>>>>,
     <<<<1090, 1088, 1072, 1074, 1077>>, <<1090, 1088, 1072, 1074, 1045>>>>,
     <<<<1090, 1088, 1072, 1074, 1091>>, <<1090, 1088, 1072, 1074, 1059>>>>,
     <<<<1090, 1088, 1072, 1074, 1086, 1081>>, <<1090, 1088, 1072, 1074, 1054, 1081>>>>,
     <<<<1094, 1074, 1077, 1090, 1099>>, <<1094, 1074, 1077, 1090, 1067>>>>,
     <<<<1094, 1074, 1077, 1090, 1086, 1074>>, <<1094, 1074, 1077, 1090, 1054, 1074>>>>,
     <<<<1094, 1074, 1077, 1090, 1072, 1084>>, <<1094, 1074, 1077, 1090, 1040, 1084>>>>,
     <<<<1094, 1074, 1077, 1090, 1072, 1084, 1080>>, <<1094, 1074, 1077, 1090, 1040, 1084, 1080>>>>,
     <<<<1076, 1086, 1078, 1076, 1100>>, <<1076, 1054, 1078, 1076, 1100>>>>,
     <<<<1076, 1086, 1078, 1076, 1103>>, <<1076, 1086, 1078, 1076, 1071>>>>,
     <<<<1076, 1086, 1078, 1076, 1102>>, <<1076, 1086, 1078, 1076, 1070>>>>,
     <<<<1076, 1086, 1078, 1076, 1077, 1084>>, <<1076, 1086, 1078, 1076, 1045, 1084>>>>,
     <<<<1089, 1086, 1083, 1085, 1094, 1077>>, <<1089, 1054, 1083, 1085, 1094, 1077>>>>,
     <<<<1089, 1086, 1083, 1085, 1094, 1072>>, <<1089, 1054, 1083, 1085, 1094, 1072>>>>,
     <<<<1089, 1086, 1083, 1085, 1094, 1091>>, <<1089, 1054, 1083, 1085, 1094, 1091>>>>,
     <<<<1089, 1086, 1083, 1085, 1094, 1077, 1084>>, <<1089, 1054, 1083, 1085, 1094, 1077, 1084>>>>,
     <<<<1074, 1077, 1090, 1077, 1088>>, <<1074, 1045, 1090, 1077, 1088>>>>,
     <<<<1074, 1077, 1090, 1088, 1072>>, <<1074, 1077, 1090, 1088, 1040>>>>,
     <<<<1074, 1077, 1090, 1088, 1091>>, <<1074, 1077, 1090, 1088, 1059>>>>,
     <<<<1074, 1077, 1090, 1088, 1086, 1084>>, <<1074, 1045, 1090, 1088, 1086, 1084>>>>,
     <<<<1087, 1090, 1080, 1094, 1099>>, <<1087, 1090, 1048, 1094, 1099>>>>,
     <<<<1087, 1090, 1080, 1094>>, <<1087, 1090, 1048, 1094>>>>,
     <<<<1087, 1090, 1080, 1094, 1072, 1084>>, <<1087, 1090, 1080, 1094, 1040, 1084>>>>,
     <<<<1087, 1090, 1080, 1094, 1072, 1084, 1080>>, <<1087, 1090, 1080, 1094, 1040, 1084, 1080>>>>,
     <<<<1083, 1080, 1089, 1090, 1100, 1103>>, <<1083, 1048, 1089, 1090, 1100, 1103>>>>,
     <<<<1083, 1080, 1089, 1090, 1100, 1077, 1074>>, <<1083, 1048, 1089, 1090, 1100, 1077, 1074>>>>,
     <<<<1083, 1080, 1089, 1090, 1100, 1103, 1084>>, <<1083, 1080, 1089, 1090, 1100, 1071, 1084>>>>,
     <<<<1083, 1080, 1089, 1090, 1100, 1103, 1084, 1080>>, <<1083, 1080, 1089, 1090, 1100, 1071, 1084, 1080>>>>,
     <<<<1076, 1077, 1088, 1077, 1074, 1100, 1103>>, <<1076, 1077, 1088, 1045, 1074, 1100, 1103>>>>,
     <<<<1076, 1077, 1088, 1077, 1074, 1100, 1077, 1074>>, <<1076, 1077, 1088, 1045, 1074, 1100, 1077, 1074>>>>,
     <<<<1076, 1077, 1088, 1077, 1074, 1100, 1103, 1084>>, <<1076, 1077, 1088, 1077, 1074, 1100, 1071, 1084>>>>,
     <<<<1076, 1077, 1088, 1077, 1074, 1100, 1103, 1084, 1080>>, <<1076, 1077, 1088, 1077, 1074, 1100, 1071, 1084, 1080>>>>,
     <<<<1088, 1091, 1095, 1100, 1080>>, <<1088, 1091, 1095, 1100, 1048>>>>,
     <<<<1088, 1091, 1095, 1100, 1077, 1074>>, <<1088, 1091, 1095, 1100, 1025, 1074>>>>,
     <<<<1088, 1091, 1095, 1100, 1103, 1084>>, <<1088, 1091, 1095, 1100, 1071, 1084>>>>,
     <<<<1088, 1091, 1095, 1100, 1103, 1084, 1080>>, <<1088, 1091, 1095, 1100, 1071, 1084, 1080>>>>,
     <<<<1087, 1086, 1083, 1103>>, <<1087, 1086, 1083, 1071>>>>,
     <<<<1087, 1086, 1083, 1077, 1081>>, <<1087, 1086, 1083, 1045, 1081>>>>,
     <<<<1087, 1086, 1083, 1103, 1084>>, <<1087, 1086, 1083, 1071, 1084>>>>,
     <<<<1087, 1086, 1083, 1103, 1084, 1080>>, <<1087, 1086, 1083, 1071, 1084, 1080>>>>,
     <<<<1089, 1072, 1076, 1099>>, <<1089, 1072, 1076, 1067>>>>,
     <<<<1089, 1072, 1076, 1086, 1074>>, <<1089, 1072, 1076, 1054, 1074>>>>,
     <<<<1089, 1072, 1076, 1072, 1084>>, <<1089, 1072, 1076, 1040, 1084>>>>,
     <<<<1089, 1072, 1076, 1072, 1084, 1080>>, <<1089, 1072, 1076, 1040, 1084, 1080>>>>,
     <<<<1083, 1091, 1075, 1072>>, <<1083, 1091, 1075, 1040>>>>,
     <<<<1083, 1091, 1075, 1086, 1074>>, <<1083, 1091, 1075, 1054, 1074>>>>,
     <<<<1083, 1091, 1075, 1072, 1084>>, <<1083, 1091, 1075, 1040, 1084>>>>,
     <<<<1083, 1091, 1075, 1072, 1084, 1080>>, <<1083, 1091, 1075, 1040, 1084, 1080>>>>,
     <<<<1088, 1077, 1082, 1072>>, <<1088, 1077, 1082, 1040>>>>,
     <<<<1088, 1077, 1082, 1080>>, <<1088, 1077, 1082, 1048>>>>,
     <<<<1088, 1077, 1082, 1077>>, <<1088, 1077, 1082, 1045>>>>,
     <<<<1088, 1077, 1082, 1091>>, <<1088, 1077, 1082, 1059>>>>,
     <<<<1088, 1077, 1082, 1086, 1081>>, <<1088, 1077, 1082, 1054, 1081>>>>,
     <<<<1086, 1079, 1077, 1088, 1086>>, <<1054, 1079, 1077, 1088, 1086>>>>,
     <<<<1086, 1079, 1077, 1088, 1072>>, <<1054, 1079, 1077, 1088, 1072>>>>,
     <<<<1086, 1079, 1077, 1088, 1091>>, <<1054, 1079, 1077, 1088, 1091>>>>,
     <<<<1086, 1079, 1077, 1088, 1086, 1084>>, <<1054, 1079, 1077, 1088, 1086, 1084>>>>,
     <<<<1085, 1077, 1073, 1086>>, <<1085, 1045, 1073, 1086>>>>,
     <<<<1085, 1077, 1073, 1072>>, <<1085, 1045, 1073, 1072>>>>,
     <<<<1085, 1077, 1073, 1091>>, <<1085, 1045, 1073, 1091>>>>,
     <<<<1085, 1077, 1073, 1086, 1084>>, <<1085, 1045, 1073, 1086, 1084>>>>,
     <<<<1091, 1090, 1088, 1086>>, <<1059, 1090, 1088, 1086>>>>,
     <<<<1091, 1090, 1088, 1072>>, <<1059, 1090, 1088, 1072>>>>,
     <<<<1091, 1090, 1088, 1091>>, <<1059, 1090, 1088, 1091>>>>,
     <<<<1091, 1090, 1088, 1086, 1084>>, <<1059, 1090, 1088, 1086, 1084>>>>,
     <<<<1076, 1077, 1085, 1100>>, <<1076, 1045, 1085, 1100>>>>,
     <<<<1076, 1085, 1103>>, <<1076, 1085, 1071>>>>,
     <<<<1076, 1085, 1102>>, <<1076, 1085, 1070>>>>,
     <<<<1076, 1085, 1077, 1084>>, <<1076, 1085, 1045, 1084>>>>,
     <<<<1085, 1086, 1095, 1100>>, <<1085, 1054, 1095, 1100>>>>,
     <<<<1085, 1086, 1095, 1080>>, <<1085, 1054, 1095, 1080>>>>,
     <<<<1085, 1086, 1095, 1100, 1102>>, <<1085, 1054, 1095, 1100, 1102>>>>,
     <<<<1084, 1077, 1089, 1103, 1094>>, <<1084, 1045, 1089, 1103, 1094>>>>,
     <<<<1084, 1077, 1089, 1103, 1094, 1072>>, <<1084, 1045, 1089, 1103, 1094, 1072>>>>,
     <<<<1084, 1077, 1089, 1103, 1094, 1091>>, <<1084, 1045, 1089, 1103, 1094, 1091>>>>,
     <<<<1084, 1077, 1089, 1103, 1094, 1077, 1084>>, <<1084, 1045, 1089, 1103, 1094, 1077, 1084>>>>,
     <<<<1079, 1074, 1077, 1079, 1076, 1099>>, <<1079, 1074, 1025, 1079, 1076, 1099>>>>,
     <<<<1079, 1074, 1077, 1079, 1076>>, <<1079, 1074, 1105, 1079, 1076>>>>,
     <<<<1079, 1074, 1077, 1079, 1076, 1072, 1084>>, <<1079, 1074, 1077, 1079, 1076, 1040, 1084>>>>,
     <<<<1079, 1074, 1077, 1079, 1076, 1072, 1084, 1080>>, <<1079, 1074, 1077, 1079, 1076, 1040, 1084, 1080>>>>,
     <<<<1089, 1074, 1077, 1090>>, <<1089, 1074, 1045, 1090>>>>,
     <<<<1089, 1074, 1077, 1090, 1072>>, <<1089, 1074, 1045, 1090, 1072>>>>,
     <<<<1089, 1074, 1077, 1090, 1091>>, <<1089, 1074, 1045, 1090, 1091>>>>,
     <<<<1089, 1074, 1077, 1090, 1086, 1084>>, <<1089, 1074, 1045, 1090, 1086, 1084>>>>,
     <<<<1090, 1077, 1087, 1083, 1086>>, <<1090, 1077, 1087, 1083, 1054>>>>,
     <<<<1090, 1077, 1087, 1083, 1072>>, <<1090, 1077, 1087, 1083, 1040>>>>,
     <<<<1090, 1077, 1087, 1083, 1091>>, <<1090, 1077, 1087, 1083, 1059>>>>,
     <<<<1090, 1077, 1087, 1083, 1086, 1084>>, <<1090, 1077, 1087, 1083, 1054, 1084>>>>,
     <<<<1088, 1072, 1076, 1086, 1089, 1090, 1100>>, <<1088, 1040, 1076, 1086, 1089, 1090, 1100>>>>,
     <<<<1088, 1072, 1076, 1086, 1089, 1090, 1080>>, <<1088, 1040, 1076, 1086, 1089, 1090, 1080>>>>,
     <<<<1088, 1072, 1076, 1086, 1089, 1090, 1100, 1102>>, <<1088, 1040, 1076, 1086, 1089, 1090, 1100, 1102>>>>,
     <<<<1082, 1088, 1072, 1089, 1086, 1090, 1072>>, <<1082, 1088, 1072, 1089, 1086, 1090, 1040>>>>,
     <<<<1082, 1088, 1072, 1089, 1086, 1090, 1099>>, <<1082, 1088, 1072, 1089, 1086, 1090, 1067>>>>,
     <<<<1082, 1088, 1072, 1089, 1086, 1090, 1077>>, <<1082, 1088, 1072, 1089, 1086, 1090, 1045>>>>,
     <<<<1082, 1088, 1072, 1089, 1086, 1090, 1086, 1081>>, <<1082, 1088, 1072, 1089, 1086, 1090, 1054, 1081>>>>,
     <<<<1083, 1102, 1073, 1086, 1074, 1100>>, <<1083, 1102, 1073, 1054, 1074, 1100>>>>,
     <<<<1083, 1102, 1073, 1074, 1080>>, <<1083, 1102, 1073, 1074, 1048>>>>,
     <<<<1083, 1102, 1073, 1086, 1074, 1100, 1102>>, <<1083, 1102, 1073, 1054, 1074, 1100, 1102>>>>,
     <<<<1085, 1072, 1076, 1077, 1078, 1076, 1072>>, <<1085, 1072, 1076, 1045, 1078, 1076, 1072>>>>,
     <<<<1085, 1072, 1076, 1077, 1078, 1076, 1099>>, <<1085, 1072, 1076, 1045, 1078, 1076, 1099>>>>,
     <<<<1085, 1072, 1076, 1077, 1078, 1076, 1077>>, <<1085, 1072, 1076, 1045, 1078, 1076, 1077>>>>,
     <<<<1085, 1072, 1076, 1077, 1078, 1076, 1086, 1081>>, <<1085, 1072, 1076, 1045, 1078, 1076, 1086, 1081>>>>,
     <<<<1089, 1095, 1072, 1089, 1090, 1100, 1077>>, <<1089, 1095, 1040, 1089, 1090, 1100, 1077>>>>,
     <<<<1089, 1095, 1072, 1089, 1090, 1100, 1103>>, <<1089, 1095, 1040, 1089, 1090, 1100, 1103>>>>,
     <<<<1089, 1095, 1072, 1089, 1090, 1100, 1102>>, <<1089, 1095, 1040, 1089, 1090, 1100, 1102>>>>,
     <<<<1089, 1095, 1072, 1089, 1090, 1100, 1077, 1084>>, <<1089, 1095, 1040, 1089, 1090, 1100, 1077, 1084>>>> >>


\* the entries of the dictionary the lookup loop returns from: the key is the
\* word and the stressed form has a capital letter
stressed_entries(last_word) ==
  SelectSeq(stress_dict,
            LAMBDA e : /\ e[1] = last_word
                       /\ \E i \in 1..Len(e[2]) : isupper(e[2][i]))

\* index (1-based) of the first capital letter of a stressed form
first_upper(stressed_form) ==
  CHOOSE i \in 1..Len(stressed_form) :
    /\ isupper(stressed_form[i])
    /\ \A j \in 1..(i - 1) : ~isupper(stressed_form[j])

\* index (1-based) of the n-th vowel of the word counted from its end:
\* vowel_positions[-n]
vowel_from_end(word, n) ==
  CHOOSE i \in 1..Len(word) :
    /\ InList(word[i], vowels)
    /\ Cardinality({j \in i..Len(word) : InList(word[j], vowels)}) = n

\* (vowel, position, word) with the stress on the i-th letter, which reads c
stress_at(c, i, last_word) ==
  [some |-> TRUE, vowel |-> c, position |-> i - 1, word |-> last_word]

\* the dictionary lookup, then the heuristic of the second-to-last vowel
stress_of_word(last_word, entries) ==
  IF entries # <<>>
  THEN stress_at(LowerChar(entries[1][2][first_upper(entries[1][2])]),
                 first_upper(entries[1][2]), last_word)
  ELSE IF count_syllables(last_word) = 0 THEN NoStress
  ELSE IF count_syllables(last_word) >= 2
       THEN stress_at(last_word[vowel_from_end(last_word, 2)],
                      vowel_from_end(last_word, 2), last_word)
       ELSE stress_at(last_word[vowel_from_end(last_word, 1)],
                      vowel_from_end(last_word, 1), last_word)

get_stress_pattern_of(text) ==
  IF text = <<>> THEN NoStress
  ELSE IF split(text) = <<>> THEN NoStress
  ELSE stress_of_word(last_word_of(split(text)),
                      stressed_entries(last_word_of(split(text))))

\* get_stress_pattern of every line of Lines, computed once
stress_patterns == [l \in Lines |-> get_stress_pattern_of(l)]

get_stress_pattern(text) ==
  IF text \in Lines THEN stress_patterns[text]
  ELSE get_stress_pattern_of(text)


\* faulty variant: each comparison one letter further from the end
get_rhyme_type_by_stress_off_by_one(position, word_length) ==
  IF position = word_length - 2 THEN "masculine"
  ELSE IF position >= word_length - 3 THEN "feminine"
  ELSE IF position >= word_length - 4 THEN "dactylic"
  ELSE "hyperdactylic"

get_rhyme_type_by_stress(position, word_length) ==
  IF position = word_length - 1 THEN "masculine"          \* мужская
  ELSE IF position >= word_length - 2 THEN "feminine"     \* женская
  ELSE IF position >= word_length - 3 THEN "dactylic"     \* дактилическая
  ELSE "hyperdactylic"                                    \* гипердактилическая

----------------------------------------------------------------------------
(* The other helpers nested in generate_spring_poem                        *)

\* the only scheme of rhyme_schemes, "1-2 и 3-4"
selected_scheme == "1-2 i 3-4"

\* faulty variant: the fourth line rhymes with the first
get_rhyme_target_cross(line_num_, scheme) ==
  IF scheme = "1-2 i 3-4" /\ line_num_ = 1 THEN 0
  ELSE IF scheme = "1-2 i 3-4" /\ line_num_ = 3 THEN 0
  ELSE -1

\* -1 stands for None
get_rhyme_target(line_num_, scheme) ==
  IF scheme = "1-2 i 3-4" /\ line_num_ = 1 THEN 0
  ELSE IF scheme = "1-2 i 3-4" /\ line_num_ = 3 THEN 2
  ELSE -1

\* default arguments of is_valid_poem_line
min_words == 3
max_words == 8

\* faulty variant: re.search(r'[а-яёА-ЯЁ-]', word), a word passes with one
\* Russian letter or hyphen anywhere in it
all_words_russian_search(words) ==
  \A w \in 1..Len(words) :
    \E i \in 1..Len(words[w]) : IsRussian(words[w][i]) \/ words[w][i] = 45

\* re.match(r'^[а-яёА-ЯЁ-]+$', word) for every word
all_words_russian(words) ==
  \A w \in 1..Len(words) :
    \A i \in 1..Len(words[w]) : IsRussian(words[w][i]) \/ words[w][i] = 45

is_valid_poem_line_of(text, min_words_, max_words_) ==
  IF text = <<>> THEN FALSE
  ELSE IF Len(split(text)) < min_words_ \/ Len(split(text)) > max_words_ THEN FALSE
  ELSE all_words_russian(split(text))

\* faulty variant: len(words) > min_words in place of len(words) > max_words
is_valid_poem_line_min_as_max(text, min_words_, max_words_) ==
  IF text = <<>> THEN FALSE
  ELSE IF Len(split(text)) < min_words_ \/ Len(split(text)) > min_words_ THEN FALSE
  ELSE all_words_russian(split(text))

\* is_valid_poem_line of every line of Lines, computed once
valid_lines == [l \in Lines |-> is_valid_poem_line_of(l, min_words, max_words)]

is_valid_poem_line(text, min_words_, max_words_) ==
  IF text \in Lines /\ min_words_ = min_words /\ max_words_ = max_words THEN valid_lines[text]
  ELSE is_valid_poem_line_of(text, min_words_, max_words_)


\* faulty variant: the comparison without lower()
is_duplicate_line_case_sensitive(new_line_, existing_lines) ==
  IF new_line_ = <<>> THEN FALSE
  ELSE \E i \in 1..Len(existing_lines) :
         /\ existing_lines[i] # <<>>
         /\ new_line_ = existing_lines[i]

is_duplicate_line(new_line_, existing_lines) ==
  IF new_line_ = <<>> THEN FALSE
  ELSE \E i \in 1..Len(existing_lines) :
         /\ existing_lines[i] # <<>>
         /\ lower(new_line_) = lower(existing_lines[i])

\* rhyme_type_new == rhyme_type_target
same_rhyme_type(new_stress, target_stress_info_) ==
  IF ~new_stress.some THEN FALSE
  ELSE get_rhyme_type_by_stress(new_stress.position, Len(new_stress.word))
       = get_rhyme_type_by_stress(target_stress_info_.position,
                                  Len(target_stress_info_.word))

\* faulty variant: a candidate with any stress at all is compatible
check_stress_compatibility_any_type(new_line_, target_stress_info_) ==
  IF ~target_stress_info_.some THEN TRUE
  ELSE get_stress_pattern(new_line_).some

check_stress_compatibility(new_line_, target_stress_info_) ==
  IF ~target_stress_info_.some THEN TRUE
  ELSE same_rhyme_type(get_stress_pattern(new_line_), target_stress_info_)

\* |a - b|
abs_diff(a, b) == IF a >= b THEN a - b ELSE b - a

\* the issues list; an issue is a tag and, for the syllable difference, the
\* number its message carries
quality_issues(bad_rhyme, bad_stress, syllables_diff) ==
  (IF bad_rhyme THEN << [tag |-> "bad_rhyme", n |-> 0] >> ELSE <<>>)
  \o (IF bad_stress THEN << [tag |-> "stress_mismatch", n |-> 0] >> ELSE <<>>)
  \o (IF syllables_diff > 0
      THEN << [tag |-> "syllables_diff", n |-> syllables_diff] >> ELSE <<>>)

\* faulty variant: a penalty of 5 for each syllable of difference
quality_of_half_penalty(bad_rhyme, bad_stress, syllables_diff) ==
  [score |->
     (IF bad_rhyme THEN -100 ELSE 0)
     + (IF bad_stress THEN -50 ELSE 0)
     - (IF syllables_diff > 0 THEN syllables_diff * 5 ELSE 0)
     + (IF syllables_diff = 0 /\ ~bad_rhyme /\ ~bad_stress THEN 20 ELSE 0),
   issues |-> quality_issues(bad_rhyme, bad_stress, syllables_diff)]

\* faulty variant: the bonus of 20 given whenever the syllables match
quality_of_bonus_with_issues(bad_rhyme, bad_stress, syllables_diff) ==
  [score |->
     (IF bad_rhyme THEN -100 ELSE 0)
     + (IF bad_stress THEN -50 ELSE 0)
     - (IF syllables_diff > 0 THEN syllables_diff * 10 ELSE 0)
     + (IF syllables_diff = 0 THEN 20 ELSE 0),
   issues |-> quality_issues(bad_rhyme, bad_stress, syllables_diff)]

\* (quality_score, issues), given which checks failed
quality_of(bad_rhyme, bad_stress, syllables_diff) ==
  [score |->
     (IF bad_rhyme THEN -100 ELSE 0)
     + (IF bad_stress THEN -50 ELSE 0)
     - (IF syllables_diff > 0 THEN syllables_diff * 10 ELSE 0)
     + (IF syllables_diff = 0
           /\ quality_issues(bad_rhyme, bad_stress, syllables_diff) = <<>>
        THEN 20 ELSE 0),
   issues |-> quality_issues(bad_rhyme, bad_stress, syllables_diff)]

evaluate_line_quality(new_line_, target_stress_info_, target_syllables_, rhyme_vowel_) ==
  quality_of(
    rhyme_vowel_ # NoChar /\ ~check_rhyme(rhyme_vowel_, get_rhyme_vowel(new_line_)),
    target_stress_info_.some
      /\ ~check_stress_compatibility(new_line_, target_stress_info_),
    abs_diff(count_syllables_in_last_word(new_line_), target_syllables_))

----------------------------------------------------------------------------
(* The generators a run may be constructed with                            *)

HasDigit(t) == \E i \in 1..Len(t) : t[i] >= 48 /\ t[i] <= 57

\* replies of the stub of scenario A after line 0: a line ending in a word
\* whose last vowel is а or я, with masculine stress and as many syllables
\* in its last word as line 0
RhymesWithFirst(t, first) ==
  /\ is_valid_poem_line(cleaned_reply(t), min_words, max_words)
  /\ Len(cleaned_reply(t)) >= 8
  /\ get_rhyme_vowel(cleaned_reply(t)) \in {1072, 1103}
  /\ get_stress_pattern(cleaned_reply(t)).some
  /\ get_rhyme_type_by_stress(get_stress_pattern(cleaned_reply(t)).position,
                              Len(get_stress_pattern(cleaned_reply(t)).word))
     = "masculine"
  /\ count_syllables_in_last_word(cleaned_reply(t))
     = count_syllables_in_last_word(first)

\* the first line the stub of scenario A returns
FirstLineA == AllTexts[11]

\* what each stub may return, whatever the prompt
AnyTexts ==
  {AllTexts[i] : i \in 1..(IF MaxTexts < Len(AllTexts) THEN MaxTexts
                           ELSE Len(AllTexts))}
DigitTexts == {t \in Universe : HasDigit(t)}
UncleanTexts ==
  {t \in Universe : ~is_valid_poem_line(cleaned_reply(t), min_words, max_words)}
RhymeTexts == {t \in Universe : RhymesWithFirst(t, FirstLineA)}
\* a stub of scenario A that has two such lines only, 'У реки трава' in two
\* spellings, and so repeats itself
RepeatTexts == {t \in {AllTexts[1], AllTexts[7]} : RhymesWithFirst(t, FirstLineA)}

\* a stub whose lines end in 'трава', 'поля', 'неба' and 'к': last words of
\* two syllables that rhyme, with the stress on the last syllable or on the
\* first, and a last word without a vowel
MixedTexts == {AllTexts[1], AllTexts[9], AllTexts[13], AllTexts[6]}

Stubs == {"any", "digits", "unclean", "scenarioA", "scenarioA_fresh", "mixed"}

\* generator(prompt, ...): the continuations the installed generator may
\* return when prompted for line line_num_ with the lines accepted so far
generator(stub_, line_num_, poem_lines_) ==
  CASE stub_ = "any" -> AnyTexts
    [] stub_ = "digits" -> DigitTexts
    [] stub_ = "unclean" -> UncleanTexts
    [] stub_ = "mixed" -> MixedTexts
    [] stub_ = "scenarioA" ->
         IF line_num_ = 0 THEN {FirstLineA} ELSE RepeatTexts
    [] stub_ = "scenarioA_fresh" ->
         IF line_num_ = 0 THEN {FirstLineA}
         ELSE {t \in RhymeTexts :
                 ~is_duplicate_line(cleaned_reply(t), poem_lines_)}

----------------------------------------------------------------------------
(* generate_spring_poem and the main retry loop                            *)

\* max_attempts of the sampling loop of one line
max_attempts == 25

\* max_attempts of the main retry loop
main_max_attempts == 8

\* faulty variant: a gate without the length test
passes_gate_any_length(new_line_, poem_lines_) ==
  /\ is_valid_poem_line(new_line_, min_words, max_words)
  /\ ~is_duplicate_line(new_line_, poem_lines_)

\* the gate of the sampling loop
passes_gate(new_line_, poem_lines_) ==
  /\ is_valid_poem_line(new_line_, min_words, max_words)
  /\ ~is_duplicate_line(new_line_, poem_lines_)
  /\ Len(new_line_) >= 8

\* faulty variant: quality_score >= best_quality
better_quality_or_equal(quality_score, best_quality_) ==
  best_quality_ = <<>> \/ quality_score >= best_quality_[1]

\* quality_score > best_quality, best_quality starting at float('-inf'),
\* written <<>>; a finite quality q is written <<q>>
better_quality(quality_score, best_quality_) ==
  best_quality_ = <<>> \/ quality_score > best_quality_[1]

\* faulty variant: an early exit that tolerates one syllable of difference
is_perfect_lenient(quality) == quality.score >= -10

\* the early exit test
is_perfect(quality) == quality.score >= 0 /\ quality.issues = <<>>

\* faulty variant: any(line != "" for line in poem_lines)
all_lines_valid_any(poem_lines_) ==
  \E i \in 1..Len(poem_lines_) : poem_lines_[i] # <<>>

\* all(line != "" for line in poem_lines)
all_lines_valid(poem_lines_) ==
  \A i \in 1..Len(poem_lines_) : poem_lines_[i] # <<>>

\* locals of generate_spring_poem as it is entered
NoLocals ==
  /\ first_line_stress_info = NoStress
  /\ first_line_syllables = 0
  /\ line_num = 0
  /\ rhyme_vowel = NoChar
  /\ target_syllables = 0
  /\ target_stress_info = NoStress
  /\ attempt = 0
  /\ best_line = NoneLine
  /\ best_quality = <<>>
  /\ best_issues = <<>>
  /\ candidate_lines = {}
  /\ new_line = NoneLine
  /\ line_calls = 0
  /\ last_store = "none"

\* the locals are created anew on entry and are gone on return
ResetLocals ==
  /\ first_line_stress_info' = NoStress
  /\ first_line_syllables' = 0
  /\ line_num' = 0
  /\ rhyme_vowel' = NoChar
  /\ target_syllables' = 0
  /\ target_stress_info' = NoStress
  /\ attempt' = 0
  /\ best_line' = NoneLine
  /\ best_quality' = <<>>
  /\ best_issues' = <<>>
  /\ candidate_lines' = {}
  /\ new_line' = NoneLine
  /\ line_calls' = 0
  /\ last_store' = "none"

\* the script before its main loop
ProgramInit ==
  /\ pc = "main"
  /\ main_attempt = 0
  /\ final_poem = NoneLine
  /\ poem_lines = <<>>
  /\ NoLocals

Init ==
  /\ stub \in Stubs
  /\ ProgramInit
  /\ pure = [fn |-> "none"]

\* faulty variant: poem_lines a list of the module, not emptied on entry
StartAttempt_keeps_poem ==
  /\ pc = "main"
  /\ main_attempt < main_max_attempts
  /\ main_attempt' = main_attempt + 1
  /\ poem_lines' = poem_lines
  /\ ResetLocals
  /\ pc' = "line"
  /\ UNCHANGED << stub, final_poem, pure >>

\* for attempt in range(1, max_attempts + 1): poem_lines, ... = generate_spring_poem()
\* up to the head of the line loop
StartAttempt ==
  /\ pc = "main"
  /\ main_attempt < main_max_attempts
  /\ main_attempt' = main_attempt + 1
  /\ poem_lines' = <<>>
  /\ ResetLocals
  /\ pc' = "line"
  /\ UNCHANGED << stub, final_poem, pure >>

\* the target profile of a line whose rhyme target is rhyme_target_text,
\* stress_info being first_line_stress_info after its update
SetProfile(rhyme_target_num, rhyme_target_text, first_time) ==
  /\ rhyme_vowel' = get_rhyme_vowel(rhyme_target_text)
  /\ first_line_stress_info' =
       IF first_time THEN get_stress_pattern(rhyme_target_text)
       ELSE first_line_stress_info
  /\ first_line_syllables' =
       IF first_time THEN count_syllables_in_last_word(rhyme_target_text)
       ELSE first_line_syllables
  /\ target_syllables' = count_syllables_in_last_word(rhyme_target_text)
  /\ target_stress_info' =
       IF rhyme_target_num = 0
       THEN (IF first_time THEN get_stress_pattern(rhyme_target_text)
             ELSE first_line_stress_info)
       ELSE NoStress

\* faulty variant: target_syllables set before the line loop and not reset
\* for a line without a rhyme target
BeginLine_keeps_target ==
  /\ pc = "line"
  /\ line_num < 4
  /\ IF /\ get_rhyme_target(line_num, selected_scheme) # -1
        /\ get_rhyme_target(line_num, selected_scheme) < Len(poem_lines)
     THEN SetProfile(get_rhyme_target(line_num, selected_scheme),
                     poem_lines[get_rhyme_target(line_num, selected_scheme) + 1],
                     /\ get_rhyme_target(line_num, selected_scheme) = 0
                     /\ ~first_line_stress_info.some)
     ELSE /\ rhyme_vowel' = NoChar
          /\ target_stress_info' = NoStress
          /\ UNCHANGED << target_syllables, first_line_stress_info,
                          first_line_syllables >>
  /\ best_line' = NoneLine
  /\ best_quality' = <<>>
  /\ best_issues' = <<>>
  /\ candidate_lines' = {}
  /\ attempt' = 0
  /\ line_calls' = 0
  /\ last_store' = "none"
  /\ pc' = "sample"
  /\ UNCHANGED << stub, main_attempt, final_poem, poem_lines, line_num,
                  new_line, pure >>

\* head of the line loop: target profile and reset of the sampler's state
BeginLine ==
  /\ pc = "line"
  /\ line_num < 4
  /\ IF /\ get_rhyme_target(line_num, selected_scheme) # -1
        /\ get_rhyme_target(line_num, selected_scheme) < Len(poem_lines)
     THEN SetProfile(get_rhyme_target(line_num, selected_scheme),
                     poem_lines[get_rhyme_target(line_num, selected_scheme) + 1],
                     /\ get_rhyme_target(line_num, selected_scheme) = 0
                     /\ ~first_line_stress_info.some)
     ELSE /\ rhyme_vowel' = NoChar
          /\ target_syllables' = 0
          /\ target_stress_info' = NoStress
          /\ UNCHANGED << first_line_stress_info, first_line_syllables >>
  /\ best_line' = NoneLine
  /\ best_quality' = <<>>
  /\ best_issues' = <<>>
  /\ candidate_lines' = {}
  /\ attempt' = 0
  /\ line_calls' = 0
  /\ last_store' = "none"
  /\ pc' = "sample"
  /\ UNCHANGED << stub, main_attempt, final_poem, poem_lines, line_num,
                  new_line, pure >>

\* the loop goes on to its next iteration, or ends after the last one
Continue ==
  /\ attempt' = attempt + 1
  /\ pc' = IF attempt + 1 = max_attempts THEN "after" ELSE "sample"
  /\ UNCHANGED << poem_lines, last_store >>

\* a candidate that passed the gate, scored quality
Scored(new_line_, quality) ==
  /\ candidate_lines' = candidate_lines \cup
       {[line |-> new_line_, score |-> quality.score, issues |-> quality.issues]}
  /\ IF better_quality(quality.score, best_quality)
     THEN /\ best_line' = SomeLine(new_line_)
          /\ best_quality' = << quality.score >>
          /\ best_issues' = quality.issues
     ELSE UNCHANGED << best_line, best_quality, best_issues >>
  /\ IF is_perfect(quality)
     THEN /\ poem_lines' = Append(poem_lines, new_line_)
          /\ last_store' = "perfect"
          /\ pc' = "after"
          /\ UNCHANGED attempt
     ELSE Continue

\* the cleaned reply new_line goes through the gate
Candidate(new_line_) ==
  IF passes_gate(new_line_, poem_lines)
  THEN Scored(new_line_,
              evaluate_line_quality(new_line_, target_stress_info,
                                    target_syllables, rhyme_vowel))
  ELSE /\ Continue
       /\ UNCHANGED << candidate_lines, best_line, best_quality, best_issues >>

\* one iteration of the sampling loop, the generator returning raw
Sample(raw) ==
  /\ pc = "sample"
  /\ attempt < max_attempts
  /\ line_calls' = line_calls + 1
  /\ new_line' = SomeLine(cleaned_reply(raw))
  /\ Candidate(cleaned_reply(raw))
  /\ UNCHANGED << stub, main_attempt, final_poem, first_line_stress_info,
                  first_line_syllables, line_num, rhyme_vowel,
                  target_syllables, target_stress_info, pure >>

\* after the sampling loop, the slot already filled by the early exit
NextLine ==
  /\ pc = "after"
  /\ ~(poem_lines = <<>> \/ Len(poem_lines) <= line_num)
  /\ line_num' = line_num + 1
  /\ pc' = "line"
  /\ UNCHANGED << stub, main_attempt, final_poem, poem_lines,
                  first_line_stress_info, first_line_syllables, rhyme_vowel,
                  target_syllables, target_stress_info, attempt, best_line,
                  best_quality, best_issues, candidate_lines, new_line,
                  line_calls, last_store, pure >>

\* after the sampling loop, no early exit: the best variant fills the slot
UseBest ==
  /\ pc = "after"
  /\ poem_lines = <<>> \/ Len(poem_lines) <= line_num
  /\ best_line.some /\ best_line.val # <<>>
  /\ poem_lines' = Append(poem_lines, best_line.val)
  /\ last_store' = "best"
  /\ line_num' = line_num + 1
  /\ pc' = "line"
  /\ UNCHANGED << stub, main_attempt, final_poem, first_line_stress_info,
                  first_line_syllables, rhyme_vowel, target_syllables,
                  target_stress_info, attempt, best_line, best_quality,
                  best_issues, candidate_lines, new_line, line_calls, pure >>

\* faulty variant: the fallback without the duplicate test
RelaxedStore_no_duplicate_check(new_line_) ==
  IF is_valid_poem_line(new_line_, min_words, max_words)
  THEN /\ poem_lines' = Append(poem_lines, new_line_)
       /\ last_store' = "relaxed"
  ELSE /\ poem_lines' = Append(poem_lines, <<>>)
       /\ last_store' = "empty"

\* faulty variant: the fallback without poem_lines.append("")
RelaxedStore_skip_empty(new_line_) ==
  IF /\ is_valid_poem_line(new_line_, min_words, max_words)
     /\ ~is_duplicate_line(new_line_, poem_lines)
  THEN /\ poem_lines' = Append(poem_lines, new_line_)
       /\ last_store' = "relaxed"
  ELSE /\ poem_lines' = poem_lines
       /\ last_store' = "empty"

\* faulty variant: the fallback storing whatever text is left after cleaning
RelaxedStore_unchecked(new_line_) ==
  IF new_line_ # <<>>
  THEN /\ poem_lines' = Append(poem_lines, new_line_)
       /\ last_store' = "relaxed"
  ELSE /\ poem_lines' = Append(poem_lines, <<>>)
       /\ last_store' = "empty"

\* the cleaned reply to the simplified prompt fills the slot, or "" does
RelaxedStore(new_line_) ==
  IF /\ is_valid_poem_line(new_line_, min_words, max_words)
     /\ ~is_duplicate_line(new_line_, poem_lines)
  THEN /\ poem_lines' = Append(poem_lines, new_line_)
       /\ last_store' = "relaxed"
  ELSE /\ poem_lines' = Append(poem_lines, <<>>)
       /\ last_store' = "empty"

\* faulty variant: the simplified prompt is tried again until its reply is
\* kept
Relaxed_until_kept(raw) ==
  /\ pc = "after"
  /\ poem_lines = <<>> \/ Len(poem_lines) <= line_num
  /\ ~(best_line.some /\ best_line.val # <<>>)
  /\ line_calls' = line_calls + 1
  /\ new_line' = SomeLine(cleaned_reply(raw))
  /\ IF /\ is_valid_poem_line(cleaned_reply(raw), min_words, max_words)
        /\ ~is_duplicate_line(cleaned_reply(raw), poem_lines)
     THEN /\ poem_lines' = Append(poem_lines, cleaned_reply(raw))
          /\ last_store' = "relaxed"
          /\ line_num' = line_num + 1
          /\ pc' = "line"
     ELSE UNCHANGED << poem_lines, last_store, line_num, pc >>
  /\ UNCHANGED << stub, main_attempt, final_poem, first_line_stress_info,
                  first_line_syllables, rhyme_vowel, target_syllables,
                  target_stress_info, attempt, best_line, best_quality,
                  best_issues, candidate_lines, pure >>

\* after the sampling loop, no best variant: one more call with the
\* simplified prompt, the generator returning raw
Relaxed(raw) ==
  /\ pc = "after"
  /\ poem_lines = <<>> \/ Len(poem_lines) <= line_num
  /\ ~(best_line.some /\ best_line.val # <<>>)
  /\ line_calls' = line_calls + 1
  /\ new_line' = SomeLine(cleaned_reply(raw))
  /\ RelaxedStore(cleaned_reply(raw))
  /\ line_num' = line_num + 1
  /\ pc' = "line"
  /\ UNCHANGED << stub, main_attempt, final_poem, first_line_stress_info,
                  first_line_syllables, rhyme_vowel, target_syllables,
                  target_stress_info, attempt, best_line, best_quality,
                  best_issues, candidate_lines, pure >>

\* generate_spring_poem returns a poem without an empty slot: the main loop
\* keeps it and breaks
Complete ==
  /\ pc = "line"
  /\ line_num = 4
  /\ all_lines_valid(poem_lines)
  /\ final_poem' = SomeLine(poem_lines)
  /\ ResetLocals
  /\ pc' = "done"
  /\ UNCHANGED << stub, main_attempt, poem_lines, pure >>

\* it returns a poem with an empty slot and attempts are left
Retry ==
  /\ pc = "line"
  /\ line_num = 4
  /\ ~all_lines_valid(poem_lines)
  /\ main_attempt < main_max_attempts
  /\ ResetLocals
  /\ pc' = "main"
  /\ UNCHANGED << stub, main_attempt, final_poem, poem_lines, pure >>

\* it returns a poem with an empty slot on the last attempt
GiveUp ==
  /\ pc = "line"
  /\ line_num = 4
  /\ ~all_lines_valid(poem_lines)
  /\ ~(main_attempt < main_max_attempts)
  /\ final_poem' = SomeLine(poem_lines)
  /\ ResetLocals
  /\ pc' = "done"
  /\ UNCHANGED << stub, main_attempt, poem_lines, pure >>

Next ==
  \/ StartAttempt
  \/ BeginLine
  \/ \E raw \in generator(stub, line_num, poem_lines) : Sample(raw)
  \/ NextLine
  \/ UseBest
  \/ \E raw \in generator(stub, line_num, poem_lines) : Relaxed(raw)
  \/ Complete
  \/ Retry
  \/ GiveUp

Spec == Init /\ [][Next]_vars

\* the script goes on as long as it can, every call of the generator
\* returning; the stubs are those whose replies do not vary with MaxTexts
FairInit ==
  /\ stub \in Stubs \ {"any"}
  /\ ProgramInit
  /\ pure = [fn |-> "none"]

FairSpec == FairInit /\ [][Next]_vars /\ WF_vars(Next)

----------------------------------------------------------------------------
(* clean_poem_line applied to arbitrary short texts                        *)

\* longest text given to clean_poem_line
MaxLen == 4

\* а, Я, space, newline, hyphen, the digit 1
CleanChars == {1072, 1071, 32, 10, 45, 49}

CleanInputs == UNION {[1..n -> CleanChars] : n \in 0..MaxLen}

CleanInit ==
  /\ stub = "any"
  /\ ProgramInit
  /\ pure \in {[fn |-> "clean", arg |-> x, out |-> NoneLine, again |-> NoneLine] :
                 x \in CleanInputs}

\* cleaned = clean_poem_line(text)
Clean ==
  /\ pure.fn = "clean"
  /\ ~pure.out.some
  /\ pure' = [pure EXCEPT !.out = SomeLine(clean_poem_line(pure.arg))]
  /\ UNCHANGED << stub, pc, main_attempt, final_poem, poem_lines,
                  first_line_stress_info, first_line_syllables, line_num,
                  rhyme_vowel, target_syllables, target_stress_info, attempt,
                  best_line, best_quality, best_issues, candidate_lines,
                  new_line, line_calls, last_store >>

\* clean_poem_line(cleaned)
CleanAgain ==
  /\ pure.fn = "clean"
  /\ pure.out.some
  /\ ~pure.again.some
  /\ pure' = [pure EXCEPT !.again = SomeLine(clean_poem_line(pure.out.val))]
  /\ UNCHANGED << stub, pc, main_attempt, final_poem, poem_lines,
                  first_line_stress_info, first_line_syllables, line_num,
                  rhyme_vowel, target_syllables, target_stress_info, attempt,
                  best_line, best_quality, best_issues, candidate_lines,
                  new_line, line_calls, last_store >>

CleanNext == Clean \/ CleanAgain

CleanSpec == CleanInit /\ [][CleanNext]_vars

----------------------------------------------------------------------------
(* The helper functions applied to arguments of their own                  *)

\* the script itself is not run
ProgramIdle ==
  UNCHANGED << stub, pc, main_attempt, final_poem, poem_lines,
               first_line_stress_info, first_line_syllables, line_num,
               rhyme_vowel, target_syllables, target_stress_info, attempt,
               best_line, best_quality, best_issues, candidate_lines,
               new_line, line_calls, last_store >>

\* largest target_syllables given to evaluate_line_quality
MaxSyllables == 3

\* no result yet of evaluate_line_quality
NoQuality == [some |-> FALSE, score |-> 0, issues |-> <<>>]

\* arguments of evaluate_line_quality: a line of Lines, no stress profile or
\* the one of a line of Lines, a syllable count, no rhyme vowel or a vowel
QualityRequests ==
  {[fn |-> "quality", new_line |-> l, target_stress_info |-> t,
    target_syllables |-> n, rhyme_vowel |-> v, out |-> NoQuality] :
     l \in Lines,
     t \in {NoStress} \cup {get_stress_pattern(x) : x \in Lines},
     n \in 0..MaxSyllables,
     v \in {NoChar} \cup {vowels[i] : i \in 1..Len(vowels)}}

\* quality_score, issues = evaluate_line_quality(...)
EvalQuality ==
  /\ pure.fn = "quality"
  /\ ~pure.out.some
  /\ pure' = [pure EXCEPT !.out =
       [some |-> TRUE,
        score |-> evaluate_line_quality(pure.new_line, pure.target_stress_info,
                                        pure.target_syllables, pure.rhyme_vowel).score,
        issues |-> evaluate_line_quality(pure.new_line, pure.target_stress_info,
                                         pure.target_syllables, pure.rhyme_vowel).issues]]
  /\ ProgramIdle

\* largest number of words of a text given to is_valid_poem_line
MaxWords == 9

\* the words 'а' and 'Я-ё'
GoodWords == {<<1072>>, <<1071, 45, 1105>>}

\* the words 'а1', 'z' and '5'
BadWords == {<<1072, 49>>, <<122>>, <<53>>}

\* what stands between two words: ' ' or ' \n'
Separators == {<<32>>, <<32, 10>>}

\* lead, then n words separated by sep: the word good, but bad as the word
\* number at (no word when at = 0)
RECURSIVE JoinWords(_, _, _, _, _, _)
JoinWords(lead, n, good, at, bad, sep) ==
  IF n = 0 THEN lead
  ELSE JoinWords(lead, n - 1, good, at, bad, sep)
       \o (IF n = 1 THEN <<>> ELSE sep)
       \o (IF n = at THEN bad ELSE good)

\* arguments of is_valid_poem_line: texts of 0..MaxWords words
ValidRequests ==
  {[fn |-> "valid", text |-> JoinWords(lead, n, good, at, bad, sep),
    out |-> [some |-> FALSE, val |-> FALSE]] :
     lead \in {<<>>, <<32>>}, n \in 0..MaxWords, good \in GoodWords,
     at \in 0..MaxWords, bad \in BadWords, sep \in Separators}

\* is_valid_poem_line(text) with the default min_words and max_words
CheckValid ==
  /\ pure.fn = "valid"
  /\ ~pure.out.some
  /\ pure' = [pure EXCEPT !.out =
       [some |-> TRUE,
        val |-> is_valid_poem_line(pure.text, min_words, max_words)]]
  /\ ProgramIdle

\* arguments of get_rhyme_vowel_group and check_rhyme: the ten vowels, no
\* vowel, and the characters 'к', 'А' and 'a'
RhymeChars == {vowels[i] : i \in 1..Len(vowels)} \cup {NoChar, 1082, 1040, 97}

RhymeRequests ==
  {[fn |-> "rhyme", a |-> a, b |-> b,
    out |-> [some |-> FALSE, group_a |-> <<>>, group_b |-> <<>>,
             ab |-> FALSE, ba |-> FALSE]] :
     a \in RhymeChars, b \in RhymeChars}

\* get_rhyme_vowel_group of both characters, check_rhyme in both orders
CheckRhyme ==
  /\ pure.fn = "rhyme"
  /\ ~pure.out.some
  /\ pure' = [pure EXCEPT !.out =
       [some |-> TRUE,
        group_a |-> get_rhyme_vowel_group(pure.a),
        group_b |-> get_rhyme_vowel_group(pure.b),
        ab |-> check_rhyme(pure.a, pure.b),
        ba |-> check_rhyme(pure.b, pure.a)]]
  /\ ProgramIdle

\* the keys of the stress dictionary
StressKeys == {stress_dict[i][1] : i \in 1..Len(stress_dict)}

\* words the dictionary has not: 'молоко', 'ёж', 'к', 'аэ', 'стриж'
OtherWords ==
  {<<1084, 1086, 1083, 1086, 1082, 1086>>, <<1105, 1078>>, <<1082>>,
   <<1072, 1101>>, <<1089, 1090, 1088, 1080, 1078>>}

\* a word with its first letter in upper case
Capitalized(word) ==
  [i \in 1..Len(word) |->
     IF i = 1 /\ word[i] >= 1072 /\ word[i] <= 1103 THEN word[i] - 32
     ELSE word[i]]

\* arguments of get_stress_pattern: the lines of Lines, and every key of
\* the dictionary and every other word as the last word of a line, as it
\* is and capitalized
StressRequests ==
  {[fn |-> "stress", text |-> t, out |-> [some |-> FALSE, val |-> NoStress]] :
     t \in Lines
           \cup {<<1072, 32>> \o w : w \in StressKeys \cup OtherWords}
           \cup {Capitalized(w) : w \in StressKeys \cup OtherWords}}

\* get_stress_pattern(text)
FindStress ==
  /\ pure.fn = "stress"
  /\ ~pure.out.some
  /\ pure' = [pure EXCEPT !.out =
       [some |-> TRUE, val |-> get_stress_pattern(pure.text)]]
  /\ ProgramIdle

\* largest word length given to get_rhyme_type_by_stress
MaxWordLen == 6

\* arguments of get_rhyme_type_by_stress: a position inside a word
TypeRequests ==
  UNION {{[fn |-> "type", position |-> q, word_length |-> n,
           out |-> [some |-> FALSE, val |-> ""]] : q \in 0..(n - 1)} :
         n \in 1..MaxWordLen}

\* get_rhyme_type_by_stress(position, word_length)
FindType ==
  /\ pure.fn = "type"
  /\ ~pure.out.some
  /\ pure' = [pure EXCEPT !.out =
       [some |-> TRUE,
        val |-> get_rhyme_type_by_stress(pure.position, pure.word_length)]]
  /\ ProgramIdle

FnInit ==
  /\ stub = "any"
  /\ ProgramInit
  /\ \/ pure \in QualityRequests
     \/ pure \in ValidRequests
     \/ pure \in RhymeRequests
     \/ pure \in StressRequests
     \/ pure \in TypeRequests

FnNext ==
  \/ EvalQuality
  \/ CheckValid
  \/ CheckRhyme
  \/ FindStress
  \/ FindType

FnSpec == FnInit /\ [][FnNext]_vars

----------------------------------------------------------------------------
(* Properties                                                              *)

\* a poem of 4 slots, none of them the empty placeholder
PoemComplete(p) == Len(p) = 4 /\ \A i \in 1..4 : p[i] # <<>>

\* the gate as the specification words it, against the accepted lines
GateOK(c, accepted) ==
  /\ is_valid_poem_line(c, 3, 8)
  /\ ~is_duplicate_line(c, accepted)
  /\ Len(c) >= 8

\* the lines accepted before the line that is being sampled
Accepted == SubSeq(poem_lines, 1, line_num)

\* the score and issues of candidate c against the current target profile
QualityNow(c) ==
  evaluate_line_quality(c, target_stress_info, target_syllables, rhyme_vowel)

\* C1: the main loop runs generate_spring_poem at most 8 times and stops at
\* the first attempt whose 4 slots are all non-empty: an attempt is started
\* only after an incomplete one, a complete attempt ends the run with that
\* poem as the final poem, and a run that ends without a complete poem ends
\* after the 8th attempt with that attempt's poem.
C1_RetryLoop ==
  /\ [](main_attempt <= 8)
  /\ [](pc = "done" =>
          /\ final_poem = SomeLine(poem_lines)
          /\ PoemComplete(poem_lines) \/ main_attempt = 8)
  /\ [](pc # "done" => ~final_poem.some)
  /\ [][main_attempt' # main_attempt =>
          /\ main_attempt' = main_attempt + 1
          /\ ~PoemComplete(poem_lines)]_vars
  /\ [][pc = "line" /\ line_num = 4 /\ PoemComplete(poem_lines) =>
          pc' = "done" /\ final_poem' = SomeLine(poem_lines)]_vars
  /\ [][pc = "line" /\ line_num = 4 /\ ~PoemComplete(poem_lines) /\ main_attempt < 8 =>
          pc' = "main" /\ ~final_poem'.some]_vars

\* the 8th attempt ended with an empty slot and its poem is the final poem
C1_Witness ==
  /\ pc = "done"
  /\ main_attempt = 8
  /\ ~PoemComplete(final_poem.val)
  /\ \E i \in 1..4 : final_poem.val[i] # <<>>

\* the last cleaned reply, with the score and the issues it gets against
\* the current target profile
LastReply == new_line.val
LastScored ==
  [line |-> LastReply,
   score |-> QualityNow(LastReply).score,
   issues |-> QualityNow(LastReply).issues]
LastPerfect == QualityNow(LastReply).score >= 0 /\ QualityNow(LastReply).issues = <<>>

\* C2: in the sampling loop of a line, the first candidate that passes the
\* gate and scores >= 0 with no issue is stored in the slot in that very
\* iteration and the loop is left: the loop goes on, or ends unfilled, only
\* after a reply that is not such a candidate, and the generator is called
\* for a line index only while the slot of that index is not filled.
C2_EarlyExit ==
  /\ [](pc \in {"sample", "after"} /\ line_calls > 0 /\ Len(poem_lines) = line_num =>
          ~(GateOK(LastReply, Accepted) /\ LastPerfect))
  /\ [](pc = "after" /\ Len(poem_lines) = line_num + 1 =>
          /\ poem_lines[line_num + 1] = LastReply
          /\ GateOK(LastReply, Accepted)
          /\ LastPerfect
          /\ last_store = "perfect")
  /\ [](pc = "sample" => Len(poem_lines) = line_num)
  /\ [][line_calls' = line_calls + 1 => Len(poem_lines) = line_num]_vars
  /\ [][pc = "after" /\ Len(poem_lines) = line_num + 1 =>
          poem_lines' = poem_lines /\ line_calls' = line_calls]_vars

\* a slot was just filled by the early exit, after replies that were not
\* taken and before the 25th call
C2_Witness ==
  /\ pc = "after"
  /\ last_store = "perfect"
  /\ Len(poem_lines) = line_num + 1
  /\ line_calls < 25
  /\ line_calls > 1

\* C3: while no early exit happened, the best candidate is a candidate that
\* passed the gate with the highest score among those seen, it is replaced
\* only by a strictly greater score (so the earliest wins a tie), and it is
\* None exactly when no candidate passed the gate; when the 25 attempts end
\* without an early exit, it is what fills the slot, negative score or not.
C3_BestCandidate ==
  /\ [](pc \in {"sample", "after"} /\ Len(poem_lines) = line_num =>
          /\ best_line.some <=> candidate_lines # {}
          /\ best_line.some =>
               \E c \in candidate_lines :
                 /\ c.line = best_line.val
                 /\ << c.score >> = best_quality
                 /\ c.issues = best_issues
                 /\ \A d \in candidate_lines : d.score <= c.score)
  /\ [](pc = "after" /\ Len(poem_lines) = line_num => attempt = 25 /\ line_calls = 25)
  /\ [](pc \in {"sample", "after"} /\ line_calls > 0 /\ GateOK(LastReply, Accepted) =>
          LastScored \in candidate_lines)
  /\ [][pc = "sample" /\ best_line.some /\ best_line' # best_line =>
          \A d \in candidate_lines : d.score < best_quality'[1]]_vars
  /\ [][pc = "after" /\ Len(poem_lines) = line_num /\ best_line.some =>
          poem_lines' = Append(poem_lines, best_line.val)]_vars

\* 25 attempts ended without an early exit, two candidates tie for the
\* highest score, which is negative, and a third one scored less
C3_Witness ==
  /\ pc = "after"
  /\ Len(poem_lines) = line_num
  /\ best_line.some
  /\ best_quality[1] < 0
  /\ \E c, d, e \in candidate_lines :
       /\ c.line # d.line
       /\ << c.score >> = best_quality
       /\ << d.score >> = best_quality
       /\ e.score < c.score

\* C4: a cleaned reply that is not valid, or duplicates an accepted line of
\* the poem (ignoring case), or is shorter than 8 characters is not scored,
\* does not become the best candidate and is not stored; every candidate
\* scored, the best candidate and every line the sampling loop stores are
\* valid, not a duplicate of an earlier line and at least 8 characters long.
C4_Gate ==
  /\ [][pc = "sample" /\ ~GateOK(new_line'.val, poem_lines) =>
          /\ candidate_lines' = candidate_lines
          /\ best_line' = best_line
          /\ best_quality' = best_quality
          /\ poem_lines' = poem_lines]_vars
  /\ [](pc \in {"sample", "after"} =>
          /\ \A c \in candidate_lines : GateOK(c.line, Accepted)
          /\ best_line.some => GateOK(best_line.val, Accepted))
  /\ [](pc = "after" /\ last_store = "perfect" =>
          GateOK(poem_lines[line_num + 1], Accepted))
  /\ [](pc = "line" /\ last_store \in {"perfect", "best"} =>
          GateOK(poem_lines[line_num], SubSeq(poem_lines, 1, line_num - 1)))

\* a line after the first had every one of its 25 replies rejected, the
\* last of them a valid line of fewer than 8 characters
C4_Witness ==
  /\ pc = "after"
  /\ line_num >= 1
  /\ poem_lines[1] # <<>>
  /\ Len(poem_lines) = line_num
  /\ line_calls = 25
  /\ candidate_lines = {}
  /\ is_valid_poem_line(LastReply, 3, 8)
  /\ ~is_duplicate_line(LastReply, poem_lines)

\* C5: the relaxed fallback runs exactly when the 25 attempts of a line left
\* no best candidate; it calls the generator once more (the 26th call of
\* the line), stores the cleaned reply if it is valid and no duplicate and
\* the empty placeholder otherwise, and goes on to the next line index.
C5_RelaxedFallback ==
  /\ [][last_store' \in {"relaxed", "empty"} =>
          /\ pc = "after"
          /\ Len(poem_lines) = line_num
          /\ ~best_line.some
          /\ candidate_lines = {}
          /\ line_calls = 25
          /\ line_calls' = 26
          /\ line_num' = line_num + 1
          /\ pc' = "line"
          /\ new_line'.val \in
               {cleaned_reply(raw) : raw \in generator(stub, line_num, poem_lines)}
          /\ IF /\ is_valid_poem_line(new_line'.val, 3, 8)
                /\ ~is_duplicate_line(new_line'.val, poem_lines)
             THEN /\ poem_lines' = Append(poem_lines, new_line'.val)
                  /\ last_store' = "relaxed"
             ELSE /\ poem_lines' = Append(poem_lines, <<>>)
                  /\ last_store' = "empty"]_vars
  /\ [][pc = "after" /\ Len(poem_lines) = line_num /\ ~best_line.some =>
          last_store' \in {"relaxed", "empty"}]_vars
  /\ [][pc = "after" /\ (Len(poem_lines) # line_num \/ best_line.some) =>
          last_store' \notin {"relaxed", "empty"} /\ line_calls' = line_calls]_vars

\* the fallback stored a reply too short for the sampling loop
C5_Witness ==
  /\ pc = "line"
  /\ last_store = "relaxed"
  /\ line_calls = 26
  /\ poem_lines[line_num] = LastReply
  /\ Len(LastReply) < 8

\* C6: the poem never holds more than 4 slots; each line index appends
\* exactly one slot and leaves the earlier ones as they are, so the poem
\* holds line_num slots between two indices and 4 when the attempt returns;
\* the attempt counts as complete iff none of the 4 slots is empty.
C6_Slots ==
  /\ [](Len(poem_lines) <= 4)
  /\ [](pc \in {"line", "sample"} => Len(poem_lines) = line_num)
  /\ [](pc = "after" => Len(poem_lines) \in {line_num, line_num + 1})
  /\ [](pc \in {"main", "done"} /\ main_attempt > 0 => Len(poem_lines) = 4)
  /\ [][line_num' = line_num + 1 =>
          /\ Len(poem_lines') = line_num + 1
          /\ SubSeq(poem_lines', 1, line_num) = SubSeq(poem_lines, 1, line_num)]_vars
  /\ [][poem_lines' # poem_lines /\ pc # "main" =>
          /\ Len(poem_lines) = line_num
          /\ \E x \in {poem_lines'[Len(poem_lines')]} :
               poem_lines' = Append(poem_lines, x)]_vars
  /\ [][pc = "line" /\ line_num = 4 /\ main_attempt < 8 =>
          (pc' = "done" <=> \A i \in 1..4 : poem_lines[i] # <<>>)]_vars

\* an attempt returned 4 slots, some filled and some empty
C6_Witness ==
  /\ pc = "main"
  /\ main_attempt > 0
  /\ Len(poem_lines) = 4
  /\ \E i, j \in 1..4 : poem_lines[i] = <<>> /\ poem_lines[j] # <<>>

\* the 4 empty slots of scenario B
AllEmpty == << <<>>, <<>>, <<>>, <<>> >>

\* C7 as stated: with a generator whose every reply contains a digit, no
\* candidate passes the gate, the fallback stores nothing, and the run ends
\* after 8 attempts with 4 empty slots.  Fails: 'он 1 тут 2 у нас' is
\* cleaned to a valid line before it is validated.
C7_DigitReplies ==
  stub = "digits" =>
    /\ candidate_lines = {}
    /\ last_store \in {"none", "empty"}
    /\ pc = "done" => main_attempt = 8 /\ final_poem.val = AllEmpty

\* C7 amended: with a generator whose every reply is invalid once cleaned,
\* no candidate passes the gate, no best candidate exists, the fallback
\* stores the empty placeholder, every slot is empty, and the run ends
\* after 8 attempts with 4 empty slots.
C7_InvalidReplies ==
  stub = "unclean" =>
    /\ candidate_lines = {}
    /\ ~best_line.some
    /\ last_store \in {"none", "empty"}
    /\ \A i \in 1..Len(poem_lines) : poem_lines[i] = <<>>
    /\ pc = "done" => main_attempt = 8 /\ final_poem = SomeLine(AllEmpty)

\* scenario B ran its 8 attempts
C7_Witness ==
  /\ stub = "unclean"
  /\ pc = "done"
  /\ main_attempt = 8
  /\ final_poem = SomeLine(AllEmpty)

\* the outcome of scenario A: the run never starts a second attempt, never
\* stops before its end, and ends with a complete poem whose line 0 is the
\* stub's first line and whose line 1 has а or я as its rhyme vowel
ScenarioAOutcome ==
  /\ main_attempt <= 1
  /\ pc # "done" => ENABLED Next
  /\ pc = "done" =>
       /\ PoemComplete(final_poem.val)
       /\ final_poem.val[1] = cleaned_reply(FirstLineA)
       /\ get_rhyme_vowel(final_poem.val[2]) \in {1072, 1103}

\* C8 as stated: with the stub of scenario A the run is complete within one
\* attempt.  Fails when the stub repeats a line: lines 2 and 3 are then
\* duplicates and their slots stay empty.
C8_ScenarioA == stub = "scenarioA" => ScenarioAOutcome

\* C8 amended: the same, provided the stub never returns a line equal
\* (ignoring case) to a line already accepted in the poem.
C8_ScenarioAFresh == stub = "scenarioA_fresh" => ScenarioAOutcome

\* scenario A ended after its first attempt with a complete poem
C8_Witness ==
  /\ stub = "scenarioA_fresh"
  /\ pc = "done"
  /\ main_attempt = 1
  /\ PoemComplete(final_poem.val)

\* the five groups of vowels that rhyme with each other
VowelGroups ==
  {{1072, 1103}, {1086, 1105}, {1091, 1102}, {1099, 1080}, {1101, 1077}}

\* the group of a character: its group of vowels, or itself alone
GroupOf(c) ==
  IF \E g \in VowelGroups : c \in g
  THEN CHOOSE g \in VowelGroups : c \in g
  ELSE {c}

\* the rhyme type of a stress on position in a word of n letters
RhymeTypeOf(position, n) ==
  CASE position = n - 1 -> "masculine"
    [] position = n - 2 -> "feminine"
    [] position = n - 3 -> "dactylic"
    [] OTHER -> "hyperdactylic"

\* the three penalties of a scoring request
BadRhyme ==
  /\ pure.rhyme_vowel # NoChar
  /\ get_rhyme_vowel(pure.new_line) \notin GroupOf(pure.rhyme_vowel)
BadStress ==
  /\ pure.target_stress_info.some
  /\ \/ ~get_stress_pattern(pure.new_line).some
     \/ RhymeTypeOf(get_stress_pattern(pure.new_line).position,
                    Len(get_stress_pattern(pure.new_line).word))
        # RhymeTypeOf(pure.target_stress_info.position,
                      Len(pure.target_stress_info.word))
SyllablesDiff ==
  IF count_syllables_in_last_word(pure.new_line) >= pure.target_syllables
  THEN count_syllables_in_last_word(pure.new_line) - pure.target_syllables
  ELSE pure.target_syllables - count_syllables_in_last_word(pure.new_line)

\* C11: the score of evaluate_line_quality is -100 for a targeted rhyme
\* vowel whose group the candidate's vowel is not in, -50 for a targeted
\* stress profile the candidate has not or has with another rhyme type,
\* -10 for each syllable of difference, summed, plus 20 when no issue was
\* recorded; an issue is recorded for each penalty and for nothing else, so
\* a candidate that matches all three gets exactly (20, []).
C11_QualityScore ==
  pure.fn = "quality" /\ pure.out.some =>
    /\ pure.out.score =
         (IF BadRhyme THEN -100 ELSE 0)
         + (IF BadStress THEN -50 ELSE 0)
         - 10 * SyllablesDiff
         + (IF pure.out.issues = <<>> THEN 20 ELSE 0)
    /\ Len(pure.out.issues) =
         (IF BadRhyme THEN 1 ELSE 0) + (IF BadStress THEN 1 ELSE 0)
         + (IF SyllablesDiff > 0 THEN 1 ELSE 0)
    /\ ~BadRhyme /\ ~BadStress /\ SyllablesDiff = 0 =>
         pure.out.score = 20 /\ pure.out.issues = <<>>

\* a candidate scored against a rhyme vowel, a stress profile and a
\* syllable count it all misses, the last by two syllables
C11_Witness ==
  /\ pure.fn = "quality"
  /\ pure.out.some
  /\ pure.out.score = -170
  /\ Len(pure.out.issues) = 3

\* the Russian letters а-я, ё, А-Я, Ё
RussianLetters == (1072..1103) \cup {1105} \cup (1040..1071) \cup {1025}

\* the number of whitespace-separated words of a text: the characters that
\* begin one
WordCount(text) ==
  Cardinality({i \in 1..Len(text) :
                 /\ text[i] \notin Whitespace
                 /\ (i = 1 \/ text[i - 1] \in Whitespace)})

\* every character of every word is a Russian letter or a hyphen
OnlyRussianWords(text) ==
  \A i \in 1..Len(text) :
    text[i] \in Whitespace \/ text[i] \in RussianLetters \/ text[i] = 45

\* C12: with the default bounds is_valid_poem_line(text) is true exactly
\* when the text is non-empty, has 3 to 8 whitespace-separated words, and
\* every word has only Russian letters and hyphens; so every line of 2 or
\* of 9 words and every line with a digit or a Latin letter is rejected.
C12_ValidLine ==
  pure.fn = "valid" /\ pure.out.some =>
    /\ pure.out.val <=>
         /\ pure.text # <<>>
         /\ WordCount(pure.text) >= 3
         /\ WordCount(pure.text) <= 8
         /\ OnlyRussianWords(pure.text)
    /\ WordCount(pure.text) \in {2, 9} => ~pure.out.val
    /\ (\E i \in 1..Len(pure.text) :
          pure.text[i] \in (48..57) \cup (97..122) \cup (65..90))
         => ~pure.out.val

\* a line of five words of Russian letters and hyphens was accepted
C12_Witness ==
  /\ pure.fn = "valid"
  /\ pure.out.some
  /\ pure.out.val
  /\ WordCount(pure.text) = 5
  /\ \E i \in 1..Len(pure.text) : pure.text[i] = 45

\* the elements of a list
Elements(list) == {list[i] : i \in 1..Len(list)}

\* the ten vowels а е ё и о у ы э ю я
TenVowels == {1072, 1077, 1105, 1080, 1086, 1091, 1099, 1101, 1102, 1103}

\* C13: get_rhyme_vowel_group answers for every character; each of the ten
\* vowels is in exactly one of the groups {а,я}, {о,ё}, {у,ю}, {ы,и}, {э,е}
\* and is mapped to that group, any other character to itself alone; b in
\* the group of a implies a in the group of b; check_rhyme(a, b) equals
\* check_rhyme(b, a) when both are present and is false when either is
\* absent.
C13_RhymeGroups ==
  pure.fn = "rhyme" /\ pure.out.some =>
    /\ pure.a \in TenVowels =>
         /\ Cardinality({g \in VowelGroups : pure.a \in g}) = 1
         /\ Elements(pure.out.group_a) \in VowelGroups
         /\ pure.a \in Elements(pure.out.group_a)
    /\ pure.a \notin TenVowels => pure.out.group_a = << pure.a >>
    /\ pure.b \in Elements(pure.out.group_a)
         => pure.a \in Elements(pure.out.group_b)
    /\ pure.a # NoChar /\ pure.b # NoChar =>
         /\ pure.out.ab = pure.out.ba
         /\ pure.out.ab <=> pure.b \in Elements(pure.out.group_a)
    /\ pure.a = NoChar \/ pure.b = NoChar => ~pure.out.ab /\ ~pure.out.ba

\* 'ы' and 'и' were found to rhyme in both orders
C13_Witness ==
  /\ pure.fn = "rhyme"
  /\ pure.out.some
  /\ pure.a = 1099
  /\ pure.b = 1080
  /\ pure.out.ab
  /\ pure.out.ba

\* the lowercased last word of the text of a stress request
StressWord == last_word_of(split(pure.text))

\* the capital letters А-Я and Ё
Capitals == (1040..1071) \cup {1025}

\* the positions (0-based) of the capital letters of the stressed form the
\* dictionary has for a key
MarkedPositions(key) ==
  {i \in 0..(Len(key) - 1) :
     \E e \in 1..Len(stress_dict) :
       /\ stress_dict[e][1] = key
       /\ i < Len(stress_dict[e][2])
       /\ stress_dict[e][2][i + 1] \in Capitals}

\* the letter a stressed form has at a position (0-based), in lower case
MarkedLetter(key, i) ==
  LowerChar(stress_dict[CHOOSE e \in 1..Len(stress_dict) :
                          stress_dict[e][1] = key][2][i + 1])

\* C14: for every line whose lowercased last word is a key of the stress
\* dictionary, get_stress_pattern returns the vowel and the position of the
\* capital letter of the stressed form of that key: the answer comes from
\* the dictionary and never from the heuristic.
C14_TableStress ==
  pure.fn = "stress" /\ pure.out.some /\ split(pure.text) # <<>>
  /\ StressWord \in StressKeys =>
    /\ pure.out.val.some
    /\ pure.out.val.position \in MarkedPositions(StressWord)
    /\ pure.out.val.vowel = MarkedLetter(StressWord, pure.out.val.position)
    /\ pure.out.val.word = StressWord

\* the positions (0-based) of the vowels of a word
VowelPositions(word) ==
  {i \in 0..(Len(word) - 1) : word[i + 1] \in TenVowels}

\* the n-th largest element of a set of numbers
NthLargest(S, n) ==
  CHOOSE x \in S : Cardinality({y \in S : y >= x}) = n

\* C19: whenever get_stress_pattern returns (vowel, position, word), word is
\* the lowercased last word of the line, 0 <= position < len(word) and
\* vowel is the letter of word at position; for a word the dictionary has
\* not, the position is that of the second-to-last vowel when the word has
\* two vowels or more, that of its only vowel when it has one, and the
\* result is None when it has none.
C19_StressTriple ==
  pure.fn = "stress" /\ pure.out.some /\ split(pure.text) # <<>> =>
    /\ pure.out.val.some =>
         /\ pure.out.val.word = StressWord
         /\ pure.out.val.position >= 0
         /\ pure.out.val.position < Len(StressWord)
         /\ pure.out.val.vowel = StressWord[pure.out.val.position + 1]
    /\ StressWord \notin StressKeys =>
         /\ Cardinality(VowelPositions(StressWord)) >= 2 =>
              /\ pure.out.val.some
              /\ pure.out.val.position = NthLargest(VowelPositions(StressWord), 2)
         /\ Cardinality(VowelPositions(StressWord)) = 1 =>
              /\ pure.out.val.some
              /\ pure.out.val.position \in VowelPositions(StressWord)
         /\ VowelPositions(StressWord) = {} => ~pure.out.val.some

\* C18: for 0 <= position < word_length, get_rhyme_type_by_stress answers
\* masculine exactly when position = word_length - 1, feminine exactly when
\* position = word_length - 2, dactylic exactly when position =
\* word_length - 3 and hyperdactylic exactly when position < word_length - 3:
\* exactly one of the four types; (4, 5) is masculine.
C18_RhymeType ==
  pure.fn = "type" /\ pure.out.some =>
    /\ pure.out.val \in {"masculine", "feminine", "dactylic", "hyperdactylic"}
    /\ pure.out.val = "masculine" <=> pure.position = pure.word_length - 1
    /\ pure.out.val = "feminine" <=> pure.position = pure.word_length - 2
    /\ pure.out.val = "dactylic" <=> pure.position = pure.word_length - 3
    /\ pure.out.val = "hyperdactylic" <=> pure.position < pure.word_length - 3
    /\ pure.position = 4 /\ pure.word_length = 5 => pure.out.val = "masculine"

\* the stress on the first letter of a word of five was found hyperdactylic
C18_Witness ==
  /\ pure.fn = "type"
  /\ pure.out.some
  /\ pure.position = 0
  /\ pure.word_length = 5
  /\ pure.out.val = "hyperdactylic"

\* a scored candidate has an issue of this kind
HasIssue(c, tag) == \E i \in 1..Len(c.issues) : c.issues[i].tag = tag

\* the line loop is inside the sampling of line line_num or just after it
InLine == pc \in {"sample", "after"}

\* C15: a rhyme target exists only for line 1 (target line 0) and line 3
\* (target line 2), and the stress profile is passed only when the target
\* is line 0.  While lines 0 and 2 are sampled no rhyme vowel, no stress
\* profile and a syllable target of 0 are in force, so their candidates are
\* scored by the syllables of their last word alone; "bad rhyme" is
\* recorded only for candidates of lines 1 and 3 and "stress mismatch" only
\* for candidates of line 1.
C15_Targets ==
  InLine =>
    /\ line_num \in {0, 2} =>
         /\ rhyme_vowel = NoChar
         /\ ~target_stress_info.some
         /\ target_syllables = 0
         /\ \A c \in candidate_lines :
              /\ ~HasIssue(c, "bad_rhyme")
              /\ ~HasIssue(c, "stress_mismatch")
              /\ c.score = IF count_syllables_in_last_word(c.line) = 0 THEN 20
                           ELSE -10 * count_syllables_in_last_word(c.line)
    /\ line_num = 1 =>
         /\ rhyme_vowel = get_rhyme_vowel(poem_lines[1])
         /\ target_syllables = count_syllables_in_last_word(poem_lines[1])
         /\ target_stress_info = get_stress_pattern(poem_lines[1])
    /\ line_num = 3 =>
         /\ rhyme_vowel = get_rhyme_vowel(poem_lines[3])
         /\ target_syllables = count_syllables_in_last_word(poem_lines[3])
         /\ ~target_stress_info.some
         /\ \A c \in candidate_lines : ~HasIssue(c, "stress_mismatch")

\* line 3 has a candidate with a bad rhyme whose stress does not match the
\* first line's either, which was not held against it
C15_Witness ==
  /\ InLine
  /\ line_num = 3
  /\ first_line_stress_info.some
  /\ \E c \in candidate_lines :
       /\ HasIssue(c, "bad_rhyme")
       /\ ~check_stress_compatibility(c.line, first_line_stress_info)
       /\ ~HasIssue(c, "stress_mismatch")

\* C16: no mutable state is carried from one attempt to the next.  The step
\* that starts an attempt leaves an empty poem, no cached first-line stress
\* info, a first-line syllable count of 0 and no candidates; while line
\* line_num is sampled the poem, which is the history of the prompt and the
\* list of the duplicate check, has the line_num lines of this attempt and
\* no other; the cached stress info and syllable count are absent before
\* line 1 and those of this attempt's line 0 after.
C16_FreshAttempt ==
  /\ [][main_attempt' # main_attempt =>
          /\ main_attempt' = main_attempt + 1
          /\ poem_lines' = <<>>
          /\ first_line_stress_info' = NoStress
          /\ first_line_syllables' = 0
          /\ line_num' = 0
          /\ candidate_lines' = {}
          /\ best_line' = NoneLine]_vars
  /\ [](pc = "sample" => Len(poem_lines) = line_num)
  /\ [](InLine /\ line_num = 0 =>
          first_line_stress_info = NoStress /\ first_line_syllables = 0)
  /\ [](InLine /\ line_num >= 1 =>
          /\ first_line_stress_info = get_stress_pattern(poem_lines[1])
          /\ first_line_syllables = count_syllables_in_last_word(poem_lines[1]))

\* a later attempt has accepted as its line 0 the very line that was line 0
\* of every earlier attempt, and goes on with this line alone in its poem
C16_Witness ==
  /\ stub = "scenarioA"
  /\ main_attempt >= 2
  /\ pc = "sample"
  /\ line_num = 1
  /\ poem_lines = << cleaned_reply(FirstLineA) >>
  /\ first_line_stress_info.some

\* a number the calls of the generator made so far cannot exceed: 26 for
\* each line finished, 4 * 26 for each attempt finished, and the calls made
\* for the line being sampled
CallsBound ==
  4 * (max_attempts + 1)
    * (IF pc \in {"main", "done"} THEN main_attempt ELSE main_attempt - 1)
  + (max_attempts + 1) * line_num
  + (IF InLine THEN line_calls ELSE 0)

\* C17: if every call of the generator returns, the run ends.  A line takes
\* at most 25 sampling calls and one call with the simplified prompt, an
\* attempt has 4 lines and there are at most 8 attempts: no step lowers
\* CallsBound, every call raises it by one at least, and it never exceeds
\* 832.
C17_Terminates ==
  /\ [](/\ attempt <= 25
        /\ line_calls <= attempt + 1
        /\ line_num <= 4
        /\ main_attempt <= 8
        /\ CallsBound <= 832)
  /\ [][/\ CallsBound' >= CallsBound
        /\ line_calls' # line_calls /\ line_calls' # 0 =>
             /\ line_calls' = line_calls + 1
             /\ CallsBound' >= CallsBound + 1]_vars
  /\ <>(pc = "done")

\* the eighth attempt ends after 26 calls for each of the four lines of each
\* attempt
C17_Witness ==
  /\ pc = "line"
  /\ line_num = 4
  /\ main_attempt = 8
  /\ line_calls = 26
  /\ CallsBound = 832
  /\ poem_lines = AllEmpty

\* no two non-empty lines of a poem are the same text but for the case of
\* their letters
NoRepeatedLine(poem) ==
  \A i \in 1..Len(poem) : \A j \in 1..Len(poem) :
    i < j /\ poem[i] # <<>> /\ poem[j] # <<>> =>
      lower(poem[i]) # lower(poem[j])

\* C20: in every state of the poem, whichever way its lines were stored
\* (early exit, best candidate, fallback), no two non-empty lines are equal
\* case-insensitively; empty slots are not duplicates of each other, and
\* the poem that is kept in the end is as free of repetition.
C20_NoDuplicates ==
  /\ NoRepeatedLine(poem_lines)
  /\ final_poem.some => NoRepeatedLine(final_poem.val)

\* a poem of two different lines and two empty slots, the last reply being
\* a line of the poem in another case, which was not stored
C20_Witness ==
  /\ Len(poem_lines) = 4
  /\ poem_lines[1] # <<>>
  /\ poem_lines[2] # <<>>
  /\ poem_lines[3] = <<>>
  /\ poem_lines[4] = <<>>
  /\ new_line.some
  /\ new_line.val # poem_lines[2]
  /\ lower(new_line.val) = lower(poem_lines[2])
  /\ last_store = "empty"

\* C21: the score of evaluate_line_quality is exactly 20 when the issue list
\* is empty and at most -10 when it is not; no score lies in 0..19 or above
\* 20, so the early exit test, score >= 0 and no issues, holds exactly when
\* the score is 20.
C21_ScoreRange ==
  pure.fn = "quality" /\ pure.out.some =>
    /\ pure.out.issues = <<>> => pure.out.score = 20
    /\ pure.out.issues # <<>> => pure.out.score <= -10
    /\ pure.out.score \notin 0..19
    /\ pure.out.score <= 20
    /\ (pure.out.score >= 0 /\ pure.out.issues = <<>>) <=> pure.out.score = 20
    /\ is_perfect(pure.out) <=> pure.out.score = 20

\* a candidate whose only issue is one syllable of difference has the
\* highest score short of 20
C21_Witness ==
  /\ pure.fn = "quality"
  /\ pure.out.some
  /\ Len(pure.out.issues) = 1
  /\ pure.out.score = -10

\* the number of vowels of the last word of a line
LastWordVowels(line) ==
  IF split(line) = <<>> THEN 0
  ELSE Cardinality(VowelPositions(last_word_of(split(line))))

\* line is a scored candidate no other scored candidate has fewer vowels in
\* its last word than
FewestVowels(line) ==
  /\ \E c \in candidate_lines : c.line = line
  /\ \A d \in candidate_lines : LastWordVowels(d.line) >= LastWordVowels(line)

\* the line loop has just stored a line without a rhyme target: line 0 or 2
StoredUntargeted == pc = "line" /\ line_num \in {1, 3}

\* such a line was stored by the early exit, a candidate without a vowel in
\* its last word
StoredByExit ==
  /\ last_store = "perfect"
  /\ LastWordVowels(poem_lines[line_num]) = 0

\* such a line was stored after all 25 attempts, a gated candidate with the
\* fewest vowels in its last word
StoredAsBest ==
  /\ last_store = "best"
  /\ attempt = 25
  /\ FewestVowels(poem_lines[line_num])

\* C22 as stated: a line without a rhyme target is stored by the early exit
\* of a candidate whose last word has no vowel, and otherwise, after all 25
\* attempts, it is the gated candidate with the fewest vowels in its last
\* word.  Fails: when no reply passed the gate there is no such candidate
\* and the slot gets the reply to the simplified prompt, or "".
C22_AsStated ==
  StoredUntargeted => StoredByExit \/ StoredAsBest

\* C22: while a line without a rhyme target (0 or 2) is sampled the target
\* syllable count is 0 and a gated candidate scores 20 if its last word has
\* no vowel and -10 times the vowels of its last word otherwise; a gated
\* candidate without a vowel in its last word leaves the loop at once and
\* no other does; otherwise all 25 attempts are made and, if any candidate
\* passed the gate, the stored line is the earliest one with the fewest
\* vowels in its last word; if none did, the relaxed fallback fills the slot.
C22_UntargetedLines ==
  /\ [](InLine /\ line_num \in {0, 2} =>
          /\ target_syllables = 0
          /\ \A c \in candidate_lines :
               c.score = IF LastWordVowels(c.line) = 0 THEN 20
                         ELSE -10 * LastWordVowels(c.line)
          /\ Len(poem_lines) = line_num =>
               /\ \A c \in candidate_lines : LastWordVowels(c.line) > 0
               /\ best_line.some => FewestVowels(best_line.val))
  /\ [](StoredUntargeted =>
          \/ StoredByExit
          \/ StoredAsBest
          \/ /\ last_store \in {"relaxed", "empty"}
             /\ attempt = 25
             /\ candidate_lines = {})
  /\ [][pc = "sample" /\ line_num \in {0, 2} /\ best_line.some
        /\ best_line' # best_line =>
          \A d \in candidate_lines :
            LastWordVowels(d.line) > LastWordVowels(best_line'.val)]_vars
  /\ [][pc = "after" /\ line_num \in {0, 2} /\ Len(poem_lines) = line_num
        /\ candidate_lines # {} =>
          poem_lines' = Append(poem_lines, best_line.val)]_vars

\* line 0 was stored after 25 attempts: two gated candidates tie for the
\* fewest vowels in the last word, one of them is the stored line, and a
\* third candidate has more
C22_Witness ==
  /\ StoredUntargeted
  /\ line_num = 1
  /\ StoredAsBest
  /\ \E d, e \in candidate_lines :
       /\ d.line # poem_lines[1]
       /\ LastWordVowels(d.line) = LastWordVowels(poem_lines[1])
       /\ LastWordVowels(e.line) > LastWordVowels(poem_lines[1])

\* line 1 or 3 has just been stored by the early exit
ExitStored ==
  /\ pc = "after"
  /\ last_store = "perfect"
  /\ line_num \in {1, 3}
  /\ Len(poem_lines) = line_num + 1

\* line i of poem_lines (0-based) and the line it is to rhyme with fail the
\* rhyme or the syllable count although the target has a rhyme vowel
NoMatch(i) ==
  /\ poem_lines[i + 1] # <<>>
  /\ get_rhyme_vowel(poem_lines[i]) # NoChar
  /\ \/ get_rhyme_vowel(poem_lines[i + 1])
          \notin GroupOf(get_rhyme_vowel(poem_lines[i]))
     \/ LastWordVowels(poem_lines[i + 1]) # LastWordVowels(poem_lines[i])

\* C23: when line 1 or 3 is stored by the early exit and its rhyme target,
\* the line before it, has a rhyme vowel, the rhyme vowel of the stored
\* line is in the group of the target's and their last words have the same
\* number of syllables; for line 1, when line 0 has stress info, the stored
\* line has stress info of the same rhyme type.  (No such property holds
\* of a line stored by a fallback: see the witness.)
C23_ExitGuarantee ==
  ExitStored /\ get_rhyme_vowel(poem_lines[line_num]) # NoChar =>
    /\ get_rhyme_vowel(poem_lines[line_num + 1])
         \in GroupOf(get_rhyme_vowel(poem_lines[line_num]))
    /\ LastWordVowels(poem_lines[line_num + 1])
         = LastWordVowels(poem_lines[line_num])
    /\ ~NoMatch(line_num)
    /\ line_num = 1 /\ get_stress_pattern(poem_lines[1]).some =>
         /\ get_stress_pattern(poem_lines[2]).some
         /\ RhymeTypeOf(get_stress_pattern(poem_lines[2]).position,
                        Len(get_stress_pattern(poem_lines[2]).word))
            = RhymeTypeOf(get_stress_pattern(poem_lines[1]).position,
                          Len(get_stress_pattern(poem_lines[1]).word))

\* line 3 was stored by the early exit against a line 2 with a rhyme vowel,
\* in a poem whose line 1, which a fallback stored, does not match line 0
C23_Witness ==
  /\ ExitStored
  /\ line_num = 3
  /\ get_rhyme_vowel(poem_lines[3]) # NoChar
  /\ NoMatch(1)

\* C9: cleaning is idempotent: cleaning a cleaned text leaves it as it is.
\* Fails for "- а": the first cleaning gives " а", the second "а".
C9_CleanIdempotent ==
  pure.fn = "clean" /\ pure.again.some => pure.again.val = pure.out.val

\* C10: a cleaned text holds only Russian letters, single spaces and
\* interior hyphens: no hyphen and no whitespace at either end, no two
\* whitespace characters in a row.  Fails for "- а", cleaned to " а".
C10_CleanedForm ==
  pure.fn = "clean" /\ pure.out.some =>
    LET y == pure.out.val
    IN  /\ \A i \in 1..Len(y) : IsRussian(y[i]) \/ y[i] = 32 \/ y[i] = 45
        /\ y # <<>> => /\ y[1] # 45 /\ y[Len(y)] # 45
                       /\ y[1] \notin Whitespace /\ y[Len(y)] \notin Whitespace
        /\ \A i \in 1..(Len(y) - 1) :
             ~(y[i] \in Whitespace /\ y[i + 1] \in Whitespace)


====
